---- MODULE Spec2Model ----
(***************************************************************************)
(* Collatz/Benford analyzer: the sequence engine, the inverse graph        *)
(* builder, the digit statistics and the layout engine of                  *)
(* core/collatz_math.py (with Math.py), and the cumulative evolution       *)
(* workflow of gui/actions.py and gui/controller.py.                       *)
(***************************************************************************)
EXTENDS Integers, Sequences, FiniteSets, TLC

VARIABLES
    \* generate_inverse_collatz_tree: one call in progress
    target,      \* the argument target
    max_nodes,   \* the argument max_nodes: None or Some(k)
    nodes,       \* the list nodes (creation order, ids from 0)
    q,           \* the deque q of node ids still to expand
    tree_pc,     \* position in the function body
    \* one call of a pure function of the sequence engine
    fn,          \* which function is called
    arg,         \* its argument
    n_loc,       \* collatz_orbit: the variable n as the loop rebinds it
    seq,         \* collatz_orbit: the list seq
    math_pc,     \* position in the called function
    result,      \* what the call produced
    \* CollatzGui: the controller, its widgets and the Tk timer queue
    mode,            \* CollatzGui.mode
    is_evolving,     \* EvolutionState.is_evolving
    is_paused,       \* EvolutionState.is_paused
    current_n,       \* EvolutionState.current_n
    max_n,           \* EvolutionState.max_n
    all_orbits,      \* CollatzGui.all_orbits
    entry_main,      \* the text of ui.entry_main, a sequence of characters
    btn_stop_state,  \* RoundedButton._state of ui.btn_stop
    pending          \* evolve_step callbacks scheduled with root.after, not yet run

treeVars == <<target, max_nodes, nodes, q, tree_pc>>
mathVars == <<fn, arg, n_loc, seq, math_pc, result>>
guiVars == <<mode, is_evolving, is_paused, current_n, max_n, all_orbits, entry_main,
             btn_stop_state, pending>>
vars == <<treeVars, mathVars, guiVars>>

----------------------------------------------------------------------------
(* Bounds of the model *)

\* targets MinTarget..MaxTarget are tried
MaxTarget == 24
\* budgets -1..MaxBudget and None are tried
MaxBudget == 12
\* a call with max_nodes = None is followed until it holds NodeCap nodes
NodeCap == 30
\* arguments -MaxNeg..MaxArg are given to the pure functions
MaxArg == 40
MaxNeg == 5
\* the user types the numbers 1..MaxTyped
MaxTyped == 3
\* at most MaxPending callbacks wait in the timer queue
MaxPending == 3
\* leading_digit_frequencies is given collections of at most MaxLen numbers
MaxLen == 3
\* x_spacing and y_spacing are 1..MaxSpacing
MaxSpacing == 2
\* hand-made node lists hold 1..MaxGiven nodes
MaxGiven == 3

----------------------------------------------------------------------------
(* Optional values and call outcomes *)

None == <<>>
Some(v) == <<v>>
IsNone(o) == o = <<>>
Get(o) == o[1]

\* a call either returns a value or raises ValueError without a value
Return(v) == [raised |-> FALSE, ret |-> Some(v)]
RaiseValueError == [raised |-> TRUE, ret |-> None]
NotCalled == [raised |-> FALSE, ret |-> None]

----------------------------------------------------------------------------
(* Sequence engine: core/collatz_math.py *)

\* collatz_step with the branches exchanged
collatz_step_swapped(n) ==
    IF n <= 0
    THEN RaiseValueError
    ELSE Return(IF n % 2 = 0 THEN 3 * n + 1 ELSE n \div 2)

\* collatz_step rejecting only n < 0
collatz_step_zero_passes(n) ==
    IF n < 0
    THEN RaiseValueError
    ELSE Return(IF n % 2 # 0 THEN 3 * n + 1 ELSE n \div 2)

collatz_step(n) ==
    IF n <= 0
    THEN RaiseValueError
    ELSE Return(IF n % 2 # 0 THEN 3 * n + 1 ELSE n \div 2)

\* the body of the loop appending before it steps
orbit_body_append_first(st) ==
    LET m == Get(collatz_step(st.n).ret)
    IN  [n |-> m, seq |-> Append(st.seq, st.n)]

\* lines 60-61, the body of `while n != 1`: st = [n, seq]
orbit_body(st) ==
    LET m == Get(collatz_step(st.n).ret)
    IN  [n |-> m, seq |-> Append(st.seq, m)]

\* the loop of collatz_orbit run to its end
RECURSIVE orbit_loop(_)
orbit_loop(st) ==
    IF st.n # 1 THEN orbit_loop(orbit_body(st)) ELSE st.seq

\* collatz_orbit as one call, for the callers that use its value
collatz_orbit(n) ==
    IF n <= 0
    THEN RaiseValueError
    ELSE Return(orbit_loop([n |-> n, seq |-> <<n>>]))

\* inverse_children appending the even predecessor first
inverse_children_even_first(m) ==
    IF m <= 0
    THEN RaiseValueError
    ELSE LET n == (m - 1) \div 3
             preds == <<2 * m>>
         IN  IF m % 6 = 4
                /\ n > 0 /\ n % 2 = 1 /\ collatz_step(n) = Return(m)
             THEN Return(Append(preds, n))
             ELSE Return(preds)

\* inverse_children, lines 97-111: the odd predecessor is appended when
\* m % 6 == 4 and the defensive test on the candidate passes, then 2m
inverse_children(m) ==
    IF m <= 0
    THEN RaiseValueError
    ELSE LET n == (m - 1) \div 3
             preds == IF m % 6 = 4
                         /\ n > 0 /\ n % 2 = 1 /\ collatz_step(n) = Return(m)
                      THEN <<n>>
                      ELSE <<>>
         IN  Return(Append(preds, 2 * m))

\* Math.py, the body of the loop of the earlier collatz_orbit, with the
\* step written inline
Math_orbit_body(st) ==
    LET m == IF st.n % 2 # 0 THEN 3 * st.n + 1 ELSE st.n \div 2
    IN  [n |-> m, seq |-> Append(st.seq, m)]

----------------------------------------------------------------------------
(* Presentation controller: gui/state.py, gui/validators.py, gui/actions.py, *)
(* gui/controller.py                                                        *)

IDLE == "IDLE"
SINGLE == "SINGLE"
CUMULATIVE == "CUMULATIVE"
TREE == "TREE"

\* the characters str.strip removes, as far as the texts tried go
IsSpace(c) == c = " "
DigitChars == <<"0", "1", "2", "3", "4", "5", "6", "7", "8", "9">>
IsDigit(c) == \E d \in 1 .. 10 : DigitChars[d] = c
DigitVal(c) == (CHOOSE d \in 1 .. 10 : DigitChars[d] = c) - 1

RECURSIVE lstrip(_)
lstrip(raw) ==
    IF raw # <<>> /\ IsSpace(Head(raw)) THEN lstrip(Tail(raw)) ELSE raw

RECURSIVE rstrip(_)
rstrip(raw) ==
    IF raw # <<>> /\ IsSpace(raw[Len(raw)])
    THEN rstrip(SubSeq(raw, 1, Len(raw) - 1))
    ELSE raw

\* raw.strip()
strip(raw) == rstrip(lstrip(raw))

\* the value of a string of decimal digits, read left to right
RECURSIVE digits_value(_, _)
digits_value(ds, acc) ==
    IF ds = <<>> THEN acc ELSE digits_value(Tail(ds), 10 * acc + DigitVal(Head(ds)))

\* int(text): Some(value), or None where int raises ValueError; an optional
\* sign and then one or more digits
int_of(text) ==
    LET signed == text # <<>> /\ Head(text) \in {"+", "-"}
        ds == IF signed THEN Tail(text) ELSE text
    IN  IF ds = <<>> \/ \E i \in 1 .. Len(ds) : ~IsDigit(ds[i])
        THEN None
        ELSE IF signed /\ Head(text) = "-"
             THEN Some(0 - digits_value(ds, 0))
             ELSE Some(digits_value(ds, 0))

\* parse_positive_int replacing a number below 1 by 1
parse_positive_int_clamps(raw) ==
    LET n == int_of(strip(raw))
    IN  IF IsNone(n) THEN None
        ELSE IF Get(n) > 0 THEN n ELSE Some(1)

\* gui/validators.py
parse_positive_int(raw) ==
    LET n == int_of(strip(raw))
    IN  IF IsNone(n) THEN None
        ELSE IF Get(n) > 0 THEN n ELSE None

\* the controller's state as one record g, for the handlers that follow
GuiState ==
    [mode |-> mode, is_evolving |-> is_evolving, is_paused |-> is_paused,
     current_n |-> current_n, max_n |-> max_n, all_orbits |-> all_orbits,
     entry_main |-> entry_main, btn_stop_state |-> btn_stop_state,
     pending |-> pending]

\* the state after a handler that ends in g
GuiBecomes(g) ==
    /\ mode' = g.mode
    /\ is_evolving' = g.is_evolving
    /\ is_paused' = g.is_paused
    /\ current_n' = g.current_n
    /\ max_n' = g.max_n
    /\ all_orbits' = g.all_orbits
    /\ entry_main' = g.entry_main
    /\ btn_stop_state' = g.btn_stop_state
    /\ pending' = g.pending

\* CollatzGui.__init__ with EvolutionState() and set_mode(Mode.IDLE)
GuiInit ==
    /\ mode = IDLE
    /\ is_evolving = FALSE
    /\ is_paused = FALSE
    /\ current_n = 1
    /\ max_n = 0
    /\ all_orbits = <<>>
    /\ entry_main = <<>>
    /\ btn_stop_state = "normal"
    /\ pending = 0

\* CollatzGui.set_mode, as far as it changes what handlers read
set_mode(g, m) ==
    IF m = IDLE
    THEN [g EXCEPT !.mode = m, !.entry_main = <<>>]
    ELSE IF m = CUMULATIVE
         THEN [g EXCEPT !.mode = m, !.btn_stop_state = "disabled"]
         ELSE [g EXCEPT !.mode = m]

\* which widgets set_mode leaves packed, and which clicks reach a command
ActionsShown(g) == g.mode = IDLE
ResetShown(g) == g.mode # IDLE
StopClickable(g) == g.mode = CUMULATIVE /\ g.btn_stop_state # "disabled"

\* collatz_orbit(current_n) for the numbers an evolution visits, 1..max_n
orbit_of == [n \in 1 .. MaxTyped |-> Get(collatz_orbit(n).ret)]

\* evolve_step finishing one number early
evolve_step_stops_early(g) ==
    IF ~g.is_evolving THEN g
    ELSE IF g.is_paused THEN g
    ELSE IF g.current_n >= g.max_n
         THEN [g EXCEPT !.is_evolving = FALSE, !.btn_stop_state = "disabled"]
         ELSE LET orbit == orbit_of[g.current_n]
              IN  [g EXCEPT !.all_orbits = Append(@, orbit),
                            !.current_n = @ + 1,
                            !.pending = @ + 1]

\* evolve_step with the pause test left out
evolve_step_ignores_pause(g) ==
    IF ~g.is_evolving THEN g
    ELSE IF g.current_n > g.max_n
         THEN [g EXCEPT !.is_evolving = FALSE, !.btn_stop_state = "disabled"]
         ELSE LET orbit == orbit_of[g.current_n]
              IN  [g EXCEPT !.all_orbits = Append(@, orbit),
                            !.current_n = @ + 1,
                            !.pending = @ + 1]

\* actions.evolve_step
evolve_step(g) ==
    IF ~g.is_evolving THEN g
    ELSE IF g.is_paused THEN g
    ELSE IF g.current_n > g.max_n
         THEN [g EXCEPT !.is_evolving = FALSE, !.btn_stop_state = "disabled"]
         ELSE LET orbit == orbit_of[g.current_n]
              IN  [g EXCEPT !.all_orbits = Append(@, orbit),
                            !.current_n = @ + 1,
                            !.pending = @ + 1]

\* actions.run_single
run_single(g) ==
    LET g1 == IF g.mode = IDLE THEN set_mode(g, SINGLE) ELSE g
        n == parse_positive_int(g1.entry_main)
    IN  IF IsNone(n) THEN g1
        ELSE [g1 EXCEPT !.all_orbits = <<Get(collatz_orbit(Get(n)).ret)>>]

\* start_cumulative keeping the orbits of the run before
start_cumulative_keeps_orbits(g) ==
    IF g.is_evolving THEN g
    ELSE LET g1 == IF g.mode # CUMULATIVE THEN set_mode(g, CUMULATIVE) ELSE g
             n == parse_positive_int(g1.entry_main)
         IN  IF IsNone(n) THEN g1
             ELSE evolve_step([g1 EXCEPT !.max_n = Get(n),
                                         !.current_n = 1,
                                         !.is_evolving = TRUE,
                                         !.is_paused = FALSE,
                                         !.btn_stop_state = "normal"])

\* actions.start_cumulative
start_cumulative(g) ==
    IF g.is_evolving THEN g
    ELSE LET g1 == IF g.mode # CUMULATIVE THEN set_mode(g, CUMULATIVE) ELSE g
             n == parse_positive_int(g1.entry_main)
         IN  IF IsNone(n) THEN g1
             ELSE evolve_step([g1 EXCEPT !.max_n = Get(n),
                                         !.current_n = 1,
                                         !.is_evolving = TRUE,
                                         !.is_paused = FALSE,
                                         !.all_orbits = <<>>,
                                         !.btn_stop_state = "normal"])

\* CollatzGui.run_tree
run_tree(g) == IF g.mode = IDLE THEN set_mode(g, TREE) ELSE g

\* CollatzGui.on_enter_pressed
on_enter_pressed(g) ==
    IF g.mode \in {IDLE, SINGLE} THEN run_single(g)
    ELSE IF g.mode = CUMULATIVE THEN start_cumulative(g)
    ELSE IF g.mode = TREE THEN run_tree(g)
    ELSE g

\* CollatzGui.toggle_pause
toggle_pause(g) ==
    IF ~g.is_evolving THEN g
    ELSE LET g1 == [g EXCEPT !.is_paused = ~g.is_paused]
         IN  IF g1.is_paused THEN g1 ELSE evolve_step(g1)

\* reset without `self.evo.is_paused = False`
reset_keeps_paused(g) ==
    set_mode([g EXCEPT !.is_evolving = FALSE,
                       !.current_n = 1,
                       !.max_n = 0,
                       !.all_orbits = <<>>], IDLE)

\* CollatzGui.reset
reset(g) ==
    set_mode([g EXCEPT !.is_evolving = FALSE,
                       !.is_paused = FALSE,
                       !.current_n = 1,
                       !.max_n = 0,
                       !.all_orbits = <<>>], IDLE)

\* the texts the user types: empty, not a number, zero, negative, padded,
\* and the numbers 1..MaxTyped
EntryTexts ==
    {<<>>, <<"x">>, <<"0">>, <<"-", "2">>, <<" ", "2", " ">>}
    \cup {<<DigitChars[n + 1]>> : n \in 1 .. MaxTyped}

\* the user edits the entry
TypeEntry ==
    /\ \E text \in EntryTexts :
          /\ text # entry_main
          /\ entry_main' = text
    /\ UNCHANGED <<treeVars, mathVars, mode, is_evolving, is_paused, current_n,
                   max_n, all_orbits, btn_stop_state, pending>>

\* a handler that may schedule a callback runs only while the timer queue
\* holds fewer than MaxPending callbacks
MaySchedule == pending < MaxPending

ClickSingle ==
    /\ ActionsShown(GuiState)
    /\ GuiBecomes(run_single(GuiState))
    /\ UNCHANGED <<treeVars, mathVars>>

ClickCumulative ==
    /\ ActionsShown(GuiState)
    /\ MaySchedule
    /\ GuiBecomes(start_cumulative(GuiState))
    /\ UNCHANGED <<treeVars, mathVars>>

ClickTree ==
    /\ ActionsShown(GuiState)
    /\ GuiBecomes(run_tree(GuiState))
    /\ UNCHANGED <<treeVars, mathVars>>

PressEnter ==
    /\ MaySchedule
    /\ GuiBecomes(on_enter_pressed(GuiState))
    /\ UNCHANGED <<treeVars, mathVars>>

ClickStop ==
    /\ StopClickable(GuiState)
    /\ MaySchedule
    /\ GuiBecomes(toggle_pause(GuiState))
    /\ UNCHANGED <<treeVars, mathVars>>

ClickReset ==
    /\ ResetShown(GuiState)
    /\ GuiBecomes(reset(GuiState))
    /\ UNCHANGED <<treeVars, mathVars>>

\* the event loop runs one scheduled callback, `lambda: evolve_step(controller)`
Tick ==
    /\ pending > 0
    /\ GuiBecomes(evolve_step([GuiState EXCEPT !.pending = @ - 1]))
    /\ UNCHANGED <<treeVars, mathVars>>

GuiNext ==
    TypeEntry \/ ClickSingle \/ ClickCumulative \/ ClickTree \/ PressEnter
    \/ ClickStop \/ ClickReset \/ Tick

----------------------------------------------------------------------------
(* Inverse graph builder: generate_inverse_collatz_tree *)

EVEN == "EVEN"
ODD == "ODD"
NoEdge == "None"

Node(id, value, parent_id, depth, parent_edge_type) ==
    [id |-> id, value |-> value, parent_id |-> parent_id, depth |-> depth,
     parent_edge_type |-> parent_edge_type]

\* nodes[i] of the code, ids counting from 0
NodeAt(ns, id) == ns[id + 1]

\* add_node never enqueueing
add_node_no_enqueue(st, value, parent_id, depth, edge_type, enqueue) ==
    LET node_id == Len(st.nodes)
    IN  [nodes |-> Append(st.nodes, Node(node_id, value, parent_id, depth, edge_type)),
         q     |-> st.q]

\* add_node reading len(nodes) after the append
add_node_id_after_append(st, value, parent_id, depth, edge_type, enqueue) ==
    LET node_id == Len(st.nodes) + 1
    IN  [nodes |-> Append(st.nodes, Node(node_id, value, parent_id, depth, edge_type)),
         q     |-> IF enqueue THEN Append(st.q, node_id) ELSE st.q]

\* add_node enqueueing whatever the flag says
add_node_always_enqueue(st, value, parent_id, depth, edge_type, enqueue) ==
    LET node_id == Len(st.nodes)
    IN  [nodes |-> Append(st.nodes, Node(node_id, value, parent_id, depth, edge_type)),
         q     |-> Append(st.q, node_id)]

\* the closure add_node over the lists nodes and q, st = [nodes, q]
add_node(st, value, parent_id, depth, edge_type, enqueue) ==
    LET node_id == Len(st.nodes)
    IN  [nodes |-> Append(st.nodes, Node(node_id, value, parent_id, depth, edge_type)),
         q     |-> IF enqueue THEN Append(st.q, node_id) ELSE st.q]

\* the budget compared with the length of the queue
BudgetReached_queue(st, mx) == ~IsNone(mx) /\ Len(st.q) >= Get(mx)

\* the budget test with > for >=
BudgetReached_strict(st, mx) == ~IsNone(mx) /\ Len(st.nodes) > Get(mx)

\* the budget counted without the five seeded nodes
BudgetReached_excludes_seeds(st, mx) == ~IsNone(mx) /\ Len(st.nodes) - 5 >= Get(mx)

\* `max_nodes is not None and len(nodes) >= max_nodes`, st = [nodes, q]
BudgetReached(st, mx) == ~IsNone(mx) /\ Len(st.nodes) >= Get(mx)

\* the body testing only that (u - 1) is divisible by 3, not the parity
bfs_body_divisible_only(st, tgt) ==
    LET u_id == Head(st.q)
        u == NodeAt(st.nodes, u_id)
        next_depth == u.depth + 1
        c1_val == 2 * u.value
        st1 == add_node([nodes |-> st.nodes, q |-> Tail(st.q)],
                        c1_val, Some(u_id), next_depth, EVEN, TRUE)
    IN  IF c1_val = tgt
        THEN [nodes |-> st1.nodes, q |-> st1.q, brk |-> TRUE]
        ELSE IF (u.value - 1) % 3 = 0
             THEN LET c2_val == (u.value - 1) \div 3
                      st2 == add_node(st1, c2_val, Some(u_id), next_depth, ODD, TRUE)
                  IN  [nodes |-> st2.nodes, q |-> st2.q, brk |-> c2_val = tgt]
             ELSE [nodes |-> st1.nodes, q |-> st1.q, brk |-> FALSE]

\* the body comparing with the target only after both children exist
bfs_body_late_check(st, tgt) ==
    LET u_id == Head(st.q)
        u == NodeAt(st.nodes, u_id)
        next_depth == u.depth + 1
        c1_val == 2 * u.value
        st1 == add_node([nodes |-> st.nodes, q |-> Tail(st.q)],
                        c1_val, Some(u_id), next_depth, EVEN, TRUE)
    IN  IF u.value % 6 = 4
        THEN LET c2_val == (u.value - 1) \div 3
                 st2 == add_node(st1, c2_val, Some(u_id), next_depth, ODD, TRUE)
             IN  [nodes |-> st2.nodes, q |-> st2.q,
                  brk |-> c1_val = tgt \/ c2_val = tgt]
        ELSE [nodes |-> st1.nodes, q |-> st1.q, brk |-> c1_val = tgt]

\* the body tagging the second child EdgeType.EVEN like the first
bfs_body_both_even(st, tgt) ==
    LET u_id == Head(st.q)
        u == NodeAt(st.nodes, u_id)
        next_depth == u.depth + 1
        c1_val == 2 * u.value
        st1 == add_node([nodes |-> st.nodes, q |-> Tail(st.q)],
                        c1_val, Some(u_id), next_depth, EVEN, TRUE)
    IN  IF c1_val = tgt
        THEN [nodes |-> st1.nodes, q |-> st1.q, brk |-> TRUE]
        ELSE IF u.value % 6 = 4
             THEN LET c2_val == (u.value - 1) \div 3
                      st2 == add_node(st1, c2_val, Some(u_id), next_depth, EVEN, TRUE)
                  IN  [nodes |-> st2.nodes, q |-> st2.q, brk |-> c2_val = tgt]
             ELSE [nodes |-> st1.nodes, q |-> st1.q, brk |-> FALSE]

\* the body giving the children the depth of their parent
bfs_body_same_depth(st, tgt) ==
    LET u_id == Head(st.q)
        u == NodeAt(st.nodes, u_id)
        next_depth == u.depth
        c1_val == 2 * u.value
        st1 == add_node([nodes |-> st.nodes, q |-> Tail(st.q)],
                        c1_val, Some(u_id), next_depth, EVEN, TRUE)
    IN  IF c1_val = tgt
        THEN [nodes |-> st1.nodes, q |-> st1.q, brk |-> TRUE]
        ELSE IF u.value % 6 = 4
             THEN LET c2_val == (u.value - 1) \div 3
                      st2 == add_node(st1, c2_val, Some(u_id), next_depth, ODD, TRUE)
                  IN  [nodes |-> st2.nodes, q |-> st2.q, brk |-> c2_val = tgt]
             ELSE [nodes |-> st1.nodes, q |-> st1.q, brk |-> FALSE]

\* the body without the second child
bfs_body_even_only(st, tgt) ==
    LET u_id == Head(st.q)
        u == NodeAt(st.nodes, u_id)
        next_depth == u.depth + 1
        c1_val == 2 * u.value
        st1 == add_node([nodes |-> st.nodes, q |-> Tail(st.q)],
                        c1_val, Some(u_id), next_depth, EVEN, TRUE)
    IN  [nodes |-> st1.nodes, q |-> st1.q, brk |-> c1_val = tgt]

\* one pass through the body of `while q:` after the budget check;
\* brk tells whether the pass left the loop with break
bfs_body(st, tgt) ==
    LET u_id == Head(st.q)
        u == NodeAt(st.nodes, u_id)
        next_depth == u.depth + 1
        c1_val == 2 * u.value
        st1 == add_node([nodes |-> st.nodes, q |-> Tail(st.q)],
                        c1_val, Some(u_id), next_depth, EVEN, TRUE)
    IN  IF c1_val = tgt
        THEN [nodes |-> st1.nodes, q |-> st1.q, brk |-> TRUE]
        ELSE IF u.value % 6 = 4
             THEN LET c2_val == (u.value - 1) \div 3
                      st2 == add_node(st1, c2_val, Some(u_id), next_depth, ODD, TRUE)
                  IN  [nodes |-> st2.nodes, q |-> st2.q, brk |-> c2_val = tgt]
             ELSE [nodes |-> st1.nodes, q |-> st1.q, brk |-> FALSE]

Targets == (0 - 2) .. MaxTarget
Budgets == {None} \cup {Some(k) : k \in (0 - 1) .. MaxBudget}

MathIdle ==
    /\ fn = "none"
    /\ arg = 0
    /\ n_loc = 0
    /\ seq = <<>>
    /\ math_pc = "idle"
    /\ result = NotCalled

TreeInit ==
    /\ target \in Targets
    /\ max_nodes \in Budgets
    /\ nodes = <<>>
    /\ q = <<>>
    /\ tree_pc = "call"
    /\ MathIdle
    /\ GuiInit

\* lines 202-203: the argument check
Validate ==
    /\ tree_pc = "call"
    /\ tree_pc' = IF target <= 0 THEN "raised" ELSE "seed"
    /\ UNCHANGED <<target, max_nodes, nodes, q, mathVars, guiVars>>

\* the value, depth and enqueue flag of the seeded node created when the
\* list holds k nodes (lines 223-241)
SeedValue(k) == CASE k = 0 -> 1 [] k = 1 -> 2 [] k = 2 -> 4 [] k = 3 -> 8 [] k = 4 -> 16

\* the seeded chain without `if target == 16: return nodes`
SeedReturns_not_16(k, tgt) == k # 4 /\ tgt = SeedValue(k)

\* `if target == v: return nodes` after the seeded node k is created
SeedReturns(k, tgt) == tgt = SeedValue(k)

\* one seeding statement and the `if target == ...: return nodes` after it
Seed ==
    /\ tree_pc = "seed"
    /\ LET k == Len(nodes)
           st == add_node([nodes |-> nodes, q |-> q], SeedValue(k),
                          IF k = 0 THEN None ELSE Some(k - 1), k,
                          IF k = 0 THEN NoEdge ELSE EVEN, k = 4)
       IN  /\ nodes' = st.nodes
           /\ q' = st.q
           /\ tree_pc' = IF SeedReturns(k, target) THEN "returned"
                         ELSE IF k = 4 THEN "bfs" ELSE "seed"
    /\ UNCHANGED <<target, max_nodes, mathVars, guiVars>>

\* the loop is left: `while q` fails or the budget check breaks
BfsExit ==
    /\ tree_pc = "bfs"
    /\ IF q = <<>> THEN TRUE ELSE BudgetReached([nodes |-> nodes, q |-> q], max_nodes)
    /\ tree_pc' = "returned"
    /\ UNCHANGED <<target, max_nodes, nodes, q, mathVars, guiVars>>

\* one iteration of the loop
BfsIterate ==
    /\ tree_pc = "bfs"
    /\ q # <<>>
    /\ ~BudgetReached([nodes |-> nodes, q |-> q], max_nodes)
    /\ Len(nodes) < NodeCap
    /\ LET r == bfs_body([nodes |-> nodes, q |-> q], target)
       IN  /\ nodes' = r.nodes
           /\ q' = r.q
           /\ tree_pc' = IF r.brk THEN "returned" ELSE "bfs"
    /\ UNCHANGED <<target, max_nodes, mathVars, guiVars>>

TreeNext == Validate \/ Seed \/ BfsExit \/ BfsIterate

\* one call of generate_inverse_collatz_tree run statement after statement
\* to its end
SpecTreeFair == TreeInit /\ [][TreeNext]_vars /\ WF_vars(TreeNext)

----------------------------------------------------------------------------
(* Exact arithmetic: a float is modelled by the rational number the        *)
(* expression denotes, kept in lowest terms with a positive denominator    *)

RECURSIVE Gcd(_, _)
Gcd(a, b) == IF b = 0 THEN a ELSE Gcd(b, a % b)

\* the value n / d, d > 0
Frac(n, d) ==
    LET g == Gcd(IF n < 0 THEN 0 - n ELSE n, d)
    IN  [num |-> n \div g, den |-> d \div g]

RatAdd(a, b) == Frac(a.num * b.den + b.num * a.den, a.den * b.den)

\* sum(xs) of a list of floats
RECURSIVE RatSum(_)
RatSum(xs) == IF xs = <<>> THEN Frac(0, 1) ELSE RatAdd(Head(xs), RatSum(Tail(xs)))

----------------------------------------------------------------------------
(* Digit statistics: core/collatz_math.py and Math.py *)

\* abs(n)
abs(n) == IF n < 0 THEN 0 - n ELSE n

\* the loop `while n >= 10: n //= 10`
RECURSIVE leading_digit_loop(_)
leading_digit_loop(n) ==
    IF n >= 10 THEN leading_digit_loop(n \div 10) ELSE n

\* leading_digit without `n = abs(n)`
leading_digit_no_abs(n) ==
    IF n = 0 THEN 0 ELSE leading_digit_loop(n)

\* leading_digit, lines 114-120
leading_digit(n) ==
    IF abs(n) = 0 THEN 0 ELSE leading_digit_loop(abs(n))

\* str(n) for n >= 0, a sequence of characters
RECURSIVE decimal_str(_)
decimal_str(n) ==
    IF n < 10
    THEN <<DigitChars[n + 1]>>
    ELSE Append(decimal_str(n \div 10), DigitChars[(n % 10) + 1])

\* Math.py: int(str(abs(n))[0])
Math_leading_digit(n) == Get(int_of(<<Head(decimal_str(abs(n)))>>))

\* the float c / total, kept as the quotient of its two integer operands
Quot(c, total) == [num |-> c, den |-> total]
\* the integer 0 of `[0] * 9`
IntZero == [num |-> 0, den |-> 1]

\* Counter(leading).get(d, 0) for the leading digits of the inputs
DigitCount(leading, d) ==
    Cardinality({i \in 1 .. Len(leading) : leading[i] = d})

RECURSIVE SumSeq(_)
SumSeq(xs) == IF xs = <<>> THEN 0 ELSE Head(xs) + SumSeq(Tail(xs))

\* leading_digit_frequencies dividing by the number of inputs
leading_digit_frequencies_by_len(numbers) ==
    LET leading == [i \in 1 .. Len(numbers) |-> leading_digit(numbers[i])]
        counts == [d \in 1 .. 9 |-> DigitCount(leading, d)]
        total == Len(numbers)
    IN  IF total = 0
        THEN Return([d \in 1 .. 9 |-> IntZero])
        ELSE Return([d \in 1 .. 9 |-> Quot(counts[d], total)])

\* leading_digit_frequencies, lines 139-152
leading_digit_frequencies(numbers) ==
    LET leading == [i \in 1 .. Len(numbers) |-> leading_digit(numbers[i])]
        counts == [d \in 1 .. 9 |-> DigitCount(leading, d)]
        total == SumSeq(counts)
    IN  IF total = 0
        THEN Return([d \in 1 .. 9 |-> IntZero])
        ELSE Return([d \in 1 .. 9 |-> Quot(counts[d], total)])

\* Math.py: leading_digit_frequencies over its own leading_digit
Math_leading_digit_frequencies(numbers) ==
    LET leading == [i \in 1 .. Len(numbers) |-> Math_leading_digit(numbers[i])]
        counts == [d \in 1 .. 9 |-> DigitCount(leading, d)]
        total == SumSeq(counts)
    IN  IF total = 0
        THEN Return([d \in 1 .. 9 |-> IntZero])
        ELSE Return([d \in 1 .. 9 |-> Quot(counts[d], total)])

\* math.log10(x), kept as the logarithm of its exact argument
log10(x) == [log10 |-> x]

\* expected_benford with the integer division 1 // d
expected_benford_floor_division ==
    LET digits == [d \in 1 .. 9 |-> d]
        probs == [d \in 1 .. 9 |-> log10(RatAdd(Frac(1, 1), Frac(1 \div digits[d], 1)))]
    IN  Return(<<digits, probs>>)

\* expected_benford, lines 155-169
expected_benford ==
    LET digits == [d \in 1 .. 9 |-> d]
        probs == [d \in 1 .. 9 |-> log10(RatAdd(Frac(1, 1), Frac(1, digits[d])))]
    IN  Return(<<digits, probs>>)

\* the integers the collections are drawn from: zero, a negative number,
\* one, two and three digits
NumberPool == {0, 0 - 25, 7, 70, 105}

\* the collections given: every list of at most MaxLen numbers of the pool
Collections == UNION {[1 .. k -> NumberPool] : k \in 0 .. MaxLen}

----------------------------------------------------------------------------
(* Layout engine: map_top_down_tree.  The lists it is given carry their   *)
(* position as id, so nodes[id] is always in range.                        *)

\* a dictionary lookup of an absent key raises KeyError without a value
RaiseKeyError == [raised |-> TRUE, ret |-> None]

\* children[p] as the loop of lines 292-296 fills it: the ids of the nodes
\* with parent_id p, in list order
children_of(ns, p) ==
    LET sel == SelectSeq(ns, LAMBDA n : n.parent_id = Some(p))
    IN  [i \in 1 .. Len(sel) |-> sel[i].id]

\* root_id: the id of the last node with parent_id None, 0 when there is none
root_of(ns) ==
    LET roots == {i \in 1 .. Len(ns) : IsNone(ns[i].parent_id)}
    IN  IF roots = {} THEN 0
        ELSE ns[CHOOSE i \in roots : \A j \in roots : j <= i].id

\* child_sort_key ranking ODD before EVEN
child_sort_key_odd_first(ns, child_id) ==
    LET c == NodeAt(ns, child_id)
        edge_rank == IF c.parent_edge_type = NoEdge THEN 0
                     ELSE IF c.parent_edge_type = EVEN THEN 1 ELSE 0
    IN  <<edge_rank, c.value, c.id>>

\* child_sort_key, lines 306-313
child_sort_key(ns, child_id) ==
    LET c == NodeAt(ns, child_id)
        edge_rank == IF c.parent_edge_type = NoEdge THEN 0
                     ELSE IF c.parent_edge_type = EVEN THEN 0 ELSE 1
    IN  <<edge_rank, c.value, c.id>>

\* the order of Python tuples of three integers
TupleLess(a, b) ==
    \/ a[1] < b[1]
    \/ a[1] = b[1] /\ a[2] < b[2]
    \/ a[1] = b[1] /\ a[2] = b[2] /\ a[3] < b[3]

\* children[p] after lst.sort(key=child_sort_key)
sorted_children(ns, p) ==
    SortSeq(children_of(ns, p),
            LAMBDA a, b : TupleLess(child_sort_key(ns, a), child_sort_key(ns, b)))

\* y_coord[u_id] without the factor y_spacing
assign_y_depth_only(C, st, u_id) ==
    [st EXCEPT !.y_coord = (u_id :> NodeAt(C.nodes, u_id).depth) @@ @]

\* y_coord[u_id] = nodes[u_id].depth * y_spacing
assign_y(C, st, u_id) ==
    [st EXCEPT !.y_coord = (u_id :> NodeAt(C.nodes, u_id).depth * C.y_spacing) @@ @]

\* dfs, lines 339-347, without `next_x += x_spacing`
assign_x_keeps_next_x(C, st, u_id) ==
    LET kids == C.children[u_id]
    IN  IF kids = <<>>
        THEN [st EXCEPT !.x_coord = (u_id :> Frac(st.next_x, 1)) @@ @]
        ELSE IF \E i \in 1 .. Len(kids) : kids[i] \notin DOMAIN st.x_coord
        THEN [st EXCEPT !.err = TRUE]
        ELSE LET xs == [i \in 1 .. Len(kids) |-> st.x_coord[kids[i]]]
                 total == RatSum(xs)
             IN  [st EXCEPT !.x_coord =
                     (u_id :> Frac(total.num, total.den * Len(xs))) @@ @]

\* dfs, lines 339-347, placing an internal node above its first child
assign_x_first_child(C, st, u_id) ==
    LET kids == C.children[u_id]
    IN  IF kids = <<>>
        THEN [st EXCEPT !.x_coord = (u_id :> Frac(st.next_x, 1)) @@ @,
                        !.next_x = @ + C.x_spacing]
        ELSE IF \E i \in 1 .. Len(kids) : kids[i] \notin DOMAIN st.x_coord
        THEN [st EXCEPT !.err = TRUE]
        ELSE [st EXCEPT !.x_coord = (u_id :> st.x_coord[kids[1]]) @@ @]

\* dfs, lines 339-347: a leaf takes next_x; an internal node the mean of
\* x_coord[k] over its kids, KeyError when a kid has no x_coord
assign_x(C, st, u_id) ==
    LET kids == C.children[u_id]
    IN  IF kids = <<>>
        THEN [st EXCEPT !.x_coord = (u_id :> Frac(st.next_x, 1)) @@ @,
                        !.next_x = @ + C.x_spacing]
        ELSE IF \E i \in 1 .. Len(kids) : kids[i] \notin DOMAIN st.x_coord
        THEN [st EXCEPT !.err = TRUE]
        ELSE LET xs == [i \in 1 .. Len(kids) |-> st.x_coord[kids[i]]]
                 total == RatSum(xs)
             IN  [st EXCEPT !.x_coord =
                     (u_id :> Frac(total.num, total.den * Len(xs))) @@ @]

\* dfs(u_id), lines 324-347, and its loop over children.get(u_id, []);
\* st = [visited, x_coord, y_coord, next_x, err], err once KeyError is raised
RECURSIVE dfs(_, _, _)
RECURSIVE dfs_children(_, _, _)
dfs_children(C, st, kids) ==
    IF kids = <<>> \/ st.err THEN st
    ELSE dfs_children(C, dfs(C, st, Head(kids)), Tail(kids))

dfs(C, st, u_id) ==
    IF u_id \in st.visited THEN st
    ELSE LET s1 == dfs_children(C, [st EXCEPT !.visited = @ \cup {u_id}],
                                C.children[u_id])
         IN  IF s1.err THEN s1 ELSE assign_x(C, assign_y(C, s1, u_id), u_id)

\* the loop of lines 353-355 over nodes[i..]
RECURSIVE forest_loop(_, _, _)
forest_loop(C, st, i) ==
    IF i > Len(C.nodes) \/ st.err THEN st
    ELSE forest_loop(C, dfs(C, st, C.nodes[i].id), i + 1)

\* map_top_down_tree(nodes, x_spacing=..., y_spacing=...), lines 268-357
map_top_down_tree(ns, x_spacing, y_spacing) ==
    IF ns = <<>> THEN Return(<<>>)
    ELSE LET C == [nodes |-> ns,
                   children |-> [p \in 0 .. Len(ns) - 1 |-> sorted_children(ns, p)],
                   x_spacing |-> x_spacing,
                   y_spacing |-> y_spacing]
             st0 == [visited |-> {}, x_coord |-> <<>>, y_coord |-> <<>>,
                     next_x |-> 0, err |-> FALSE]
             st == forest_loop(C, dfs(C, st0, root_of(ns)), 1)
         IN  IF st.err THEN RaiseKeyError
             ELSE Return([nid \in DOMAIN st.x_coord |->
                             <<st.x_coord[nid], st.y_coord[nid]>>])

\* the spacings tried
Spacings == 1 .. MaxSpacing

\* map_top_down_tree is called on the list a finished call of
\* generate_inverse_collatz_tree returned, on the empty list, or on a list
\* given by hand
CallLayout ==
    /\ tree_pc \in {"idle", "returned", "given"}
    /\ math_pc = "idle"
    /\ \E x_spacing \in Spacings, y_spacing \in Spacings :
          /\ fn' = "map_top_down_tree"
          /\ arg' = <<x_spacing, y_spacing>>
          /\ result' = map_top_down_tree(nodes, x_spacing, y_spacing)
    /\ n_loc' = 0
    /\ seq' = <<>>
    /\ math_pc' = "done"
    /\ UNCHANGED <<treeVars, guiVars>>

\* node i of a list given by hand: its position as id and depth, a parent
\* None or at an earlier or equal position
GivenNodes(i) ==
    {Node(i, v, None, i, NoEdge) : v \in 1 .. 2}
    \cup {Node(i, v, Some(p), i, e) : v \in 1 .. 2, p \in 0 .. i, e \in {EVEN, ODD}}

RECURSIVE GivenLists(_)
GivenLists(k) ==
    IF k = 0 THEN {<<>>}
    ELSE {Append(s, n) : s \in GivenLists(k - 1), n \in GivenNodes(k - 1)}

\* a hand-made list of 1..MaxGiven nodes is about to be laid out
GivenInit ==
    /\ target = 1
    /\ max_nodes = None
    /\ nodes \in UNION {GivenLists(k) : k \in 1 .. MaxGiven}
    /\ q = <<>>
    /\ tree_pc = "given"
    /\ MathIdle
    /\ GuiInit

----------------------------------------------------------------------------
(* A caller of the pure functions: one call, its argument and its outcome *)

Args == (0 - MaxNeg) .. MaxArg

\* no core call in progress, and the window as constructed
IdleInit ==
    /\ target = 1
    /\ max_nodes = None
    /\ nodes = <<>>
    /\ q = <<>>
    /\ tree_pc = "idle"
    /\ MathIdle
    /\ GuiInit

\* the caller makes one call, from the state in which nothing has run
CanCall == tree_pc = "idle" /\ math_pc = "idle"

\* collatz_step(n), lines 30-33
CallStep ==
    /\ CanCall
    /\ \E n \in Args :
          /\ fn' = "collatz_step"
          /\ arg' = n
          /\ result' = collatz_step(n)
    /\ n_loc' = 0
    /\ seq' = <<>>
    /\ math_pc' = "done"
    /\ UNCHANGED <<treeVars, guiVars>>

\* the head of an orbit function: `if n <= 0: raise`, then `seq = [n]`
orbit_enter(name, n) ==
    /\ fn' = name
    /\ arg' = n
    /\ IF n <= 0
       THEN /\ result' = RaiseValueError
            /\ n_loc' = 0
            /\ seq' = <<>>
            /\ math_pc' = "done"
       ELSE /\ result' = NotCalled
            /\ n_loc' = n
            /\ seq' = <<n>>
            /\ math_pc' = "loop"

\* collatz_orbit(n) is called, lines 55-58
CallOrbit ==
    /\ CanCall
    /\ \E n \in Args : orbit_enter("collatz_orbit", n)
    /\ UNCHANGED <<treeVars, guiVars>>

\* one iteration of `while n != 1`, lines 59-61
OrbitIterate ==
    /\ math_pc = "loop"
    /\ fn = "collatz_orbit"
    /\ n_loc # 1
    /\ LET st == orbit_body([n |-> n_loc, seq |-> seq])
       IN  n_loc' = st.n /\ seq' = st.seq
    /\ UNCHANGED <<treeVars, guiVars, fn, arg, math_pc, result>>

\* Math.py: the earlier collatz_orbit(n) is called
CallMathOrbit ==
    /\ CanCall
    /\ \E n \in Args : orbit_enter("Math.collatz_orbit", n)
    /\ UNCHANGED <<treeVars, guiVars>>

MathOrbitIterate ==
    /\ math_pc = "loop"
    /\ fn = "Math.collatz_orbit"
    /\ n_loc # 1
    /\ LET st == Math_orbit_body([n |-> n_loc, seq |-> seq])
       IN  n_loc' = st.n /\ seq' = st.seq
    /\ UNCHANGED <<treeVars, guiVars, fn, arg, math_pc, result>>

\* inverse_children(m)
CallInverseChildren ==
    /\ CanCall
    /\ \E m \in Args :
          /\ fn' = "inverse_children"
          /\ arg' = m
          /\ result' = inverse_children(m)
    /\ n_loc' = 0
    /\ seq' = <<>>
    /\ math_pc' = "done"
    /\ UNCHANGED <<treeVars, guiVars>>

\* leading_digit_frequencies(numbers)
CallFrequencies ==
    /\ CanCall
    /\ \E numbers \in Collections :
          /\ fn' = "leading_digit_frequencies"
          /\ arg' = numbers
          /\ result' = leading_digit_frequencies(numbers)
    /\ n_loc' = 0
    /\ seq' = <<>>
    /\ math_pc' = "done"
    /\ UNCHANGED <<treeVars, guiVars>>

\* Math.py: leading_digit_frequencies(numbers)
CallMathFrequencies ==
    /\ CanCall
    /\ \E numbers \in Collections :
          /\ fn' = "Math.leading_digit_frequencies"
          /\ arg' = numbers
          /\ result' = Math_leading_digit_frequencies(numbers)
    /\ n_loc' = 0
    /\ seq' = <<>>
    /\ math_pc' = "done"
    /\ UNCHANGED <<treeVars, guiVars>>

\* expected_benford()
CallBenford ==
    /\ CanCall
    /\ fn' = "expected_benford"
    /\ arg' = <<>>
    /\ result' = expected_benford
    /\ n_loc' = 0
    /\ seq' = <<>>
    /\ math_pc' = "done"
    /\ UNCHANGED <<treeVars, guiVars>>

\* the loop ends and `return seq` runs, line 62
OrbitReturn ==
    /\ math_pc = "loop"
    /\ n_loc = 1
    /\ result' = Return(seq)
    /\ math_pc' = "done"
    /\ UNCHANGED <<treeVars, guiVars, fn, arg, n_loc, seq>>

MathNext ==
    CallStep \/ CallOrbit \/ OrbitIterate \/ CallMathOrbit \/ MathOrbitIterate
    \/ OrbitReturn \/ CallInverseChildren \/ CallFrequencies \/ CallMathFrequencies
    \/ CallBenford

\* the core as its caller sees it: a call of generate_inverse_collatz_tree
\* followed statement by statement, or calls of the pure functions
Init == TreeInit \/ IdleInit

Next == TreeNext \/ MathNext \/ CallLayout

Spec == Init /\ [][Next]_vars

\* the window of the application: the controller after construction and
\* the events the Tk event loop delivers to it, one at a time
SpecGui == IdleInit /\ [][GuiNext]_vars

\* the user resumes a paused evolution
Resume == is_paused /\ ClickStop

\* the window with an event loop that runs every scheduled callback and a
\* user who resumes every pause
SpecGuiFair ==
    IdleInit /\ [][GuiNext]_vars /\ WF_vars(Tick) /\ WF_vars(Resume)

\* map_top_down_tree called on node lists made by hand
SpecLayout == GivenInit /\ [][CallLayout]_vars

----------------------------------------------------------------------------
(* Properties of the inverse graph builder and the sequence engine *)

Returned == tree_pc = "returned"
Last(ns) == ns[Len(ns)]
Max(a, b) == IF a >= b THEN a ELSE b
IsOdd(n) == \E k \in 0 .. n : n = 2 * k + 1
IsEven(n) == \E k \in 0 .. n : n = 2 * k
SeedTargets == {1, 2, 4, 8, 16}

\* C1: every non-root node of the list, at every point of the construction
\* and so in the returned list, steps forward to its parent's value and lies
\* one level below its parent.
C1_ChildStepsToParent ==
    \A i \in 1 .. Len(nodes) :
        LET c == nodes[i]
        IN  ~IsNone(c.parent_id) =>
                LET p == NodeAt(nodes, Get(c.parent_id))
                IN  /\ collatz_step(c.value) = Return(p.value)
                    /\ c.depth = p.depth + 1

C1_Witness ==
    /\ Returned
    /\ Len(nodes) > 5
    /\ \E i \in 1 .. Len(nodes) : nodes[i].parent_edge_type = ODD

\* C2: a finished orbit call on n > 0 returned a sequence that starts with
\* n, ends with 1 and in which each element is the step of the one before.
C2_OrbitIsStepChain ==
    (fn \in {"collatz_orbit", "Math.collatz_orbit"} /\ math_pc = "done" /\ arg > 0) =>
        /\ ~result.raised
        /\ ~IsNone(result.ret)
        /\ LET s == Get(result.ret)
           IN  /\ Len(s) >= 1
               /\ s[1] = arg
               /\ s[Len(s)] = 1
               /\ \A i \in 1 .. Len(s) - 1 : collatz_step(s[i]) = Return(s[i + 1])

C2_Witness ==
    /\ fn = "collatz_orbit"
    /\ math_pc = "done"
    /\ arg = 27
    /\ Len(Get(result.ret)) = 112

\* C3: collatz_step on n > 0 returns 3n + 1 for odd n and the exact half
\* of n for even n.
C3_StepValue ==
    (fn = "collatz_step" /\ arg > 0) =>
        /\ ~result.raised
        /\ ~IsNone(result.ret)
        /\ IsOdd(arg) => Get(result.ret) = 3 * arg + 1
        /\ IsEven(arg) => 2 * Get(result.ret) = arg

C3_Witness ==
    /\ fn = "collatz_step"
    /\ arg = 7
    /\ result = Return(22)

\* C4: on an argument <= 0 each of collatz_step, collatz_orbit and
\* generate_inverse_collatz_tree raises ValueError, and has produced no
\* value, no element of seq, no node and no queue entry.
C4_NonPositiveRaises ==
    /\ (fn \in {"collatz_step", "collatz_orbit", "Math.collatz_orbit"} /\ arg <= 0) =>
            /\ result = RaiseValueError
            /\ seq = <<>>
            /\ math_pc = "done"
    /\ (target <= 0 /\ tree_pc \notin {"idle", "call"}) =>
            /\ tree_pc = "raised"
            /\ nodes = <<>>
            /\ q = <<>>

C4_Witness ==
    /\ tree_pc = "raised"
    /\ target = 0
    /\ nodes = <<>>

\* C5 as stated: with a budget k >= 0 the returned list has at most k + 2
\* nodes.
C5_AtMostBudgetPlusTwo ==
    (Returned /\ ~IsNone(max_nodes) /\ Get(max_nodes) >= 0) =>
        Len(nodes) <= Get(max_nodes) + 2

\* C5 amended: with a budget k >= 0 the returned list has at most
\* max(5, k + 2) nodes, the seeded chain being created whatever the budget.
C5_AtMostSeedOrBudgetPlusTwo ==
    (Returned /\ ~IsNone(max_nodes) /\ Get(max_nodes) >= 0) =>
        Len(nodes) <= Max(5, Get(max_nodes) + 2)

C5_Witness ==
    /\ Returned
    /\ max_nodes = Some(6)
    /\ Len(nodes) = 7
    /\ Last(nodes).value # target

\* C6: a node whose value is the target is the last node of the list and
\* the call has returned with it: nothing is created after it, not even the
\* ODD child of the same parent.
C6_TargetNodeIsLast ==
    \A i \in 1 .. Len(nodes) :
        nodes[i].value = target => (i = Len(nodes) /\ Returned)

C6_Witness ==
    /\ Returned
    /\ Len(nodes) > 5
    /\ Last(nodes).value = target
    /\ Last(nodes).parent_edge_type = EVEN
    /\ NodeAt(nodes, Get(Last(nodes).parent_id)).value % 6 = 4

\* C7: for a target among 1, 2, 4, 8, 16 the loop is never entered and the
\* returned list is the seeded chain up to the target: node i has id i,
\* value 2^i and depth i, node 0 has no parent and no edge type, every other
\* node hangs from node i - 1 by an EVEN edge.
C7_SeedTargetReturnsChainPrefix ==
    (target \in SeedTargets) =>
        /\ tree_pc # "bfs"
        /\ Returned =>
              /\ Last(nodes).value = target
              /\ \A i \in 1 .. Len(nodes) :
                    nodes[i] = [id |-> i - 1,
                                value |-> 2 ^ (i - 1),
                                parent_id |-> IF i = 1 THEN None ELSE Some(i - 2),
                                depth |-> i - 1,
                                parent_edge_type |-> IF i = 1 THEN NoEdge ELSE EVEN]

C7_Witness ==
    /\ Returned
    /\ target = 16
    /\ Len(nodes) = 5
    /\ max_nodes = Some(0)

\* C8: the queue is never empty when the loop condition is tested, and a
\* call with a finite budget returns with the target as its last node or
\* with at least max_nodes nodes.
C8_ReturnsOnTargetOrBudget ==
    /\ tree_pc = "bfs" => q # <<>>
    /\ (Returned /\ ~IsNone(max_nodes)) =>
            \/ Last(nodes).value = target
            \/ Len(nodes) >= Get(max_nodes)

C8_Witness ==
    /\ Returned
    /\ ~IsNone(max_nodes)
    /\ Len(nodes) > 5
    /\ Last(nodes).value # target
    /\ Len(nodes) >= Get(max_nodes)

\* C18: ids are the positions in the list, counted from 0; node 0 is the
\* only node without a parent, and every other node's parent_id is an id
\* smaller than its own.
C18_IdsArePositions ==
    \A i \in 1 .. Len(nodes) :
        /\ nodes[i].id = i - 1
        /\ IsNone(nodes[i].parent_id) <=> i = 1
        /\ i > 1 => (Get(nodes[i].parent_id) >= 0 /\ Get(nodes[i].parent_id) < nodes[i].id)

C18_Witness ==
    /\ Returned
    /\ target = 3
    /\ Len(nodes) = 13
    /\ Last(nodes).id = 12
    /\ Last(nodes).parent_id = Some(8)

\* the ids of the children of node p reached by an edge of type e
ChildrenByEdge(ns, p, e) ==
    {i \in 1 .. Len(ns) : ns[i].parent_id = Some(p) /\ ns[i].parent_edge_type = e}

\* C19: an EVEN child is twice its parent; an ODD child c hangs from a
\* parent p with p mod 6 = 4, is odd and positive and has 3c + 1 = p; a
\* parent has at most one child of each type, the EVEN one created first.
C19_EdgeTypesMatchValues ==
    /\ \A i \in 2 .. Len(nodes) :
          LET c == nodes[i]
              p == NodeAt(nodes, Get(c.parent_id))
          IN  /\ c.parent_edge_type \in {EVEN, ODD}
              /\ c.parent_edge_type = EVEN => c.value = 2 * p.value
              /\ c.parent_edge_type = ODD =>
                    /\ p.value % 6 = 4
                    /\ c.value > 0
                    /\ IsOdd(c.value)
                    /\ 3 * c.value + 1 = p.value
    /\ \A j \in 0 .. Len(nodes) - 1 :
          /\ Cardinality(ChildrenByEdge(nodes, j, EVEN)) <= 1
          /\ Cardinality(ChildrenByEdge(nodes, j, ODD)) <= 1
          /\ \A a \in ChildrenByEdge(nodes, j, EVEN) :
                \A b \in ChildrenByEdge(nodes, j, ODD) : a < b

C19_Witness ==
    /\ Returned
    /\ \E j \in 0 .. Len(nodes) - 1 :
          /\ ChildrenByEdge(nodes, j, EVEN) # {}
          /\ ChildrenByEdge(nodes, j, ODD) # {}
          /\ NodeAt(nodes, j).value = 64

\* C16: for m > 0 inverse_children(m) lists, in ascending order and once
\* each, exactly the n > 0 with collatz_step(n) = m: 2m always, and
\* (m - 1)/3 exactly when m mod 6 = 4, where the defensive test never
\* drops it.
C16_InverseChildrenArePredecessors ==
    (fn = "inverse_children" /\ arg > 0) =>
        /\ ~result.raised
        /\ ~IsNone(result.ret)
        /\ LET s == Get(result.ret)
               preds == {n \in 1 .. 2 * arg + 2 : collatz_step(n) = Return(arg)}
           IN  /\ \A i \in 1 .. Len(s) - 1 : s[i] < s[i + 1]
               /\ {s[i] : i \in 1 .. Len(s)} = preds
               /\ s[Len(s)] = 2 * arg
               /\ Len(s) = IF arg % 6 = 4 THEN 2 ELSE 1
               /\ arg % 6 = 4 => 3 * s[1] + 1 = arg

C16_Witness ==
    /\ fn = "inverse_children"
    /\ arg = 16
    /\ result = Return(<<5, 32>>)

\* the passes through the loop body made so far: every node from 16 on is
\* enqueued when created, and each pass dequeues one
Iterations ==
    IF Len(nodes) < 5 THEN 0 ELSE Len(nodes) - 4 - Len(q)

\* C22: with a finite max_nodes a call with target > 0 returns; every pass
\* through the loop body creates at least one node, and at most
\* max(0, max_nodes - 5) passes are made.
C22_FiniteBudgetTerminates ==
    /\ [](~IsNone(max_nodes) =>
            Iterations <= (IF Get(max_nodes) > 5 THEN Get(max_nodes) - 5 ELSE 0))
    /\ [][BfsIterate => Len(nodes') >= Len(nodes) + 1]_vars
    /\ (tree_pc = "seed" /\ ~IsNone(max_nodes)) ~> Returned

\* budget 6: one pass, then the budget check leaves the loop
C22_Witness ==
    /\ Returned
    /\ max_nodes = Some(6)
    /\ Iterations = 1
    /\ Last(nodes).value # target

RECURSIVE Pow2(_)
Pow2(k) == IF k = 0 THEN 1 ELSE 2 * Pow2(k - 1)

\* the targets a breadth-first run is sure to reach before the list holds
\* NodeCap nodes: the seeds, and the values at depth d >= 4, since level j
\* holds at most 2^(j-4) nodes and so the levels 0..d at most 3 + 2^(d-3)
TargetsWithinCap ==
    {t \in 1 .. MaxTarget :
        LET d == Len(Get(collatz_orbit(t).ret)) - 1
        IN  d < 4 \/ 3 + Pow2(d - 3) <= NodeCap}

\* C23: with max_nodes = None the call creates a node with the value target
\* and returns with it last, for every target the bound NodeCap lets the
\* run reach; and such a call never returns without having found it.
C23_UnboundedRunFindsTarget ==
    /\ (tree_pc = "seed" /\ IsNone(max_nodes) /\ target \in TargetsWithinCap)
           ~> (Returned /\ Last(nodes).value = target)
    /\ []((Returned /\ IsNone(max_nodes)) => Last(nodes).value = target)

C23_Witness ==
    /\ Returned
    /\ IsNone(max_nodes)
    /\ target = 21
    /\ Len(nodes) = 11
    /\ Last(nodes).value = 21

\* C25: no two nodes carry the same value; 1, 2 and 4 occur in the seeded
\* chain only.
C25_ValuesAreDistinct ==
    /\ \A i, j \in 1 .. Len(nodes) : i # j => nodes[i].value # nodes[j].value
    /\ \A i \in 4 .. Len(nodes) : nodes[i].value \notin {1, 2, 4}

C25_Witness ==
    /\ Returned
    /\ IsNone(max_nodes)
    /\ target = 24
    /\ Len(nodes) = 29

\* the values read from node id up to the root along parent_id
RECURSIVE PathValues(_, _)
PathValues(ns, id) ==
    LET v == NodeAt(ns, id)
    IN  IF IsNone(v.parent_id) THEN <<v.value>>
        ELSE <<v.value>> \o PathValues(ns, Get(v.parent_id))

\* C26: the values on the way from a node up to the root are the orbit of
\* the node's value, and its depth is the length of that orbit minus 1.
C26_PathToRootIsOrbit ==
    \A i \in 1 .. Len(nodes) :
        LET orbit == Get(collatz_orbit(nodes[i].value).ret)
        IN  /\ PathValues(nodes, nodes[i].id) = orbit
            /\ nodes[i].depth = Len(orbit) - 1

C26_Witness ==
    /\ Returned
    /\ target = 3
    /\ Last(nodes).depth = 7
    /\ PathValues(nodes, Last(nodes).id) = <<3, 10, 5, 16, 8, 4, 2, 1>>

\* C27: with a budget k at most max(5, k + 1) nodes exist.
C27_AtMostBudgetPlusOne ==
    ~IsNone(max_nodes) =>
        Len(nodes) <= (IF Get(max_nodes) + 1 > 5 THEN Get(max_nodes) + 1 ELSE 5)

\* budget 6: the pass that starts with 5 nodes creates 32 and 5
C27_Witness ==
    /\ Returned
    /\ max_nodes = Some(6)
    /\ Len(nodes) = 7
    /\ Last(nodes).value = 5

----------------------------------------------------------------------------
(* Properties of the digit statistics *)

\* the nine values of a returned vector add up to one: they share one
\* divisor and their counts add up to it
SumsToOne(v) ==
    /\ \A d \in 1 .. 9 : v[d].den = v[1].den
    /\ SumSeq([d \in 1 .. 9 |-> v[d].num]) = v[1].den

\* C14 as stated: for every non-empty input collection the nine values
\* returned by leading_digit_frequencies sum to 1.0.
C14_NonEmptySumsToOne ==
    (fn = "leading_digit_frequencies" /\ arg # <<>>) =>
        ~result.raised /\ SumsToOne(Get(result.ret))

\* C14, amended: for every input collection holding at least one non-zero
\* integer the nine values sum to 1.0, the counts of the digits 1..9 adding
\* up to the divisor, which is the number of non-zero inputs; a collection of
\* zeros only gives nine zeros, which sum to 0.
C14_NonZeroInputSumsToOne ==
    fn = "leading_digit_frequencies" =>
        LET nonzero == {i \in 1 .. Len(arg) : arg[i] # 0}
        IN  /\ ~result.raised
            /\ nonzero # {} =>
                  /\ SumsToOne(Get(result.ret))
                  /\ Get(result.ret)[1].den = Cardinality(nonzero)
            /\ nonzero = {} =>
                  SumSeq([d \in 1 .. 9 |-> Get(result.ret)[d].num]) = 0

\* a collection with a zero and a non-zero number: the zero is not counted
C14_Witness ==
    /\ fn = "leading_digit_frequencies"
    /\ arg = <<0, 7>>
    /\ Get(result.ret)[7] = Quot(1, 1)

PowersOfTen == {1, 10, 100, 1000}

\* the most significant decimal digit of |n|, n # 0
MostSignificantDigit(n) ==
    CHOOSE d \in 1 .. 9 :
        \E p \in PowersOfTen : d * p <= abs(n) /\ abs(n) < (d + 1) * p

\* C15: entry d of leading_digit_frequencies (of core/collatz_math.py and of
\* Math.py) is the number of inputs whose most significant decimal digit of
\* |n| is d, divided by the number of inputs with a leading digit in 1..9,
\* which are the non-zero inputs; when there is none, the empty input
\* included, the result is nine integer zeros and nothing is divided.
C15_FrequenciesAreDigitShares ==
    fn \in {"leading_digit_frequencies", "Math.leading_digit_frequencies"} =>
        LET nonzero == {i \in 1 .. Len(arg) : arg[i] # 0}
            with(d) == {i \in nonzero : MostSignificantDigit(arg[i]) = d}
        IN  /\ ~result.raised
            /\ Len(Get(result.ret)) = 9
            /\ \A d \in 1 .. 9 :
                  Get(result.ret)[d] = IF nonzero = {}
                                  THEN IntZero
                                  ELSE Quot(Cardinality(with(d)), Cardinality(nonzero))

\* a negative number, a one-digit and a two-digit number sharing a digit
C15_Witness ==
    /\ fn = "leading_digit_frequencies"
    /\ arg = <<0 - 25, 7, 70>>
    /\ Get(result.ret)[2] = Quot(1, 3)
    /\ Get(result.ret)[7] = Quot(2, 3)

\* product and order of exact values
RatMul(a, b) == Frac(a.num * b.num, a.den * b.den)
RatLess(a, b) == a.num * b.den < b.num * a.den

\* the product of the arguments of the logarithms probs[1..k]
RECURSIVE ArgProduct(_, _)
ArgProduct(probs, k) ==
    IF k = 0 THEN Frac(1, 1) ELSE RatMul(ArgProduct(probs, k - 1), probs[k].log10)

\* C17: expected_benford returns the digits 1..9 and the nine probabilities
\* log10(1 + 1/d); they sum to 1, their sum being the logarithm of the
\* product of the arguments, which is 10; and they decrease strictly, log10
\* being increasing and the arguments decreasing.  (Real arithmetic.)
C17_BenfordSumsToOneAndDecreases ==
    fn = "expected_benford" =>
        /\ ~result.raised
        /\ LET digits == Get(result.ret)[1]
               probs == Get(result.ret)[2]
           IN  /\ digits = <<1, 2, 3, 4, 5, 6, 7, 8, 9>>
               /\ Len(probs) = 9
               /\ \A d \in 1 .. 9 :
                     /\ probs[d].log10.num = d + 1
                     /\ probs[d].log10.den = d
               /\ ArgProduct(probs, 9) = Frac(10, 1)
               /\ \A d \in 1 .. 8 : RatLess(probs[d + 1].log10, probs[d].log10)

C17_Witness ==
    /\ fn = "expected_benford"
    /\ Get(result.ret)[2][1] = log10(Frac(2, 1))
    /\ Get(result.ret)[2][9] = log10(Frac(10, 9))

----------------------------------------------------------------------------
(* Properties of the layout engine *)

LaidOut == fn = "map_top_down_tree"
\* the returned map: id -> <<x, y>>
Positions == Get(result.ret)
Ids(ns) == {ns[i].id : i \in 1 .. Len(ns)}
Kids(ns, u) == {ns[i].id : i \in {j \in 1 .. Len(ns) : ns[j].parent_id = Some(u)}}
Leaves(ns) == {u \in Ids(ns) : Kids(ns, u) = {}}

\* a node and its ancestors
RECURSIVE Ancestors(_, _)
Ancestors(ns, u) ==
    {u} \cup (IF IsNone(NodeAt(ns, u).parent_id) THEN {}
              ELSE Ancestors(ns, Get(NodeAt(ns, u).parent_id)))

\* the child of the lowest common ancestor of a and b on the way to a
Branch(ns, a, b) ==
    CHOOSE c \in Ancestors(ns, a) \ Ancestors(ns, b) :
        Get(NodeAt(ns, c).parent_id) \in Ancestors(ns, b)

\* sibling c is listed before sibling d: EVEN before ODD, then the smaller
\* value, then the smaller id
ListedBefore(c, d) ==
    LET rc == IF c.parent_edge_type = ODD THEN 1 ELSE 0
        rd == IF d.parent_edge_type = ODD THEN 1 ELSE 0
    IN  \/ rc < rd
        \/ rc = rd /\ c.value < d.value
        \/ rc = rd /\ c.value = d.value /\ c.id < d.id

RECURSIVE SumX(_, _)
SumX(pos, S) ==
    IF S = {} THEN Frac(0, 1)
    ELSE LET k == CHOOSE k \in S : TRUE
         IN  RatAdd(pos[k][1], SumX(pos, S \ {k}))

\* C12: on a generated list every node with a child has as x the
\* arithmetic mean of the x values of its children.
C12_ParentIsMeanOfChildren ==
    LaidOut =>
        /\ ~result.raised
        /\ \A u \in Ids(nodes) :
              LET kids == Kids(nodes, u)
              IN  kids # {} =>
                     RatMul(Positions[u][1], Frac(Cardinality(kids), 1))
                        = SumX(Positions, kids)

\* a node half-way between its two children
C12_Witness ==
    /\ LaidOut
    /\ Returned
    /\ \E u \in Ids(nodes) :
          /\ Cardinality(Kids(nodes, u)) = 2
          /\ Positions[u][1].den = 2

\* C13: on a generated list the keys of the returned map are the ids of the
\* list and every y is depth * y_spacing; the empty list gives the empty map.
C13_KeysAreIdsAndYIsDepth ==
    LaidOut =>
        /\ ~result.raised
        /\ DOMAIN Positions = Ids(nodes)
        /\ \A i \in 1 .. Len(nodes) :
              Positions[nodes[i].id][2] = nodes[i].depth * arg[2]
        /\ nodes = <<>> => Positions = <<>>

C13_Witness ==
    /\ LaidOut
    /\ Returned
    /\ arg[2] = 2
    /\ Len(nodes) = 13
    /\ Positions[12][2] = 2 * Last(nodes).depth
    /\ Last(nodes).depth > 0

\* the nodes of the subtree below and including r
Subtree(ns, r) == {u \in Ids(ns) : r \in Ancestors(ns, u)}

\* C30: where a parent has an EVEN and an ODD child, every node below the
\* EVEN child lies strictly left of every node below the ODD child, and the
\* two ranges are consecutive: some node of the ODD subtree lies exactly
\* x_spacing right of some node of the EVEN subtree.
C30_EvenSubtreeLeftOfOdd ==
    LaidOut =>
        /\ ~result.raised
        /\ \A p \in Ids(nodes) :
              \A i \in ChildrenByEdge(nodes, p, EVEN), j \in ChildrenByEdge(nodes, p, ODD) :
                 LET evens == Subtree(nodes, nodes[i].id)
                     odds == Subtree(nodes, nodes[j].id)
                     x(u) == Positions[u][1]
                 IN  /\ \A a \in evens, b \in odds : RatLess(x(a), x(b))
                     /\ \E a \in evens, b \in odds :
                           RatAdd(x(a), Frac(arg[1], 1)) = x(b)

\* node 16 with the subtrees of 32 and of 5, each of three nodes or more
C30_Witness ==
    /\ LaidOut
    /\ Returned
    /\ \E i \in ChildrenByEdge(nodes, 4, EVEN), j \in ChildrenByEdge(nodes, 4, ODD) :
          /\ Cardinality(Subtree(nodes, nodes[i].id)) >= 3
          /\ Cardinality(Subtree(nodes, nodes[j].id)) >= 3

\* C20 as stated: a non-empty list without a parent_id None, every
\* parent_id at an earlier or equal position, is laid out from node 0
\* without error and every id gets a coordinate.
C20_FallbackRootCompletes ==
    (LaidOut /\ tree_pc = "given"
        /\ \A i \in 1 .. Len(nodes) : ~IsNone(nodes[i].parent_id)) =>
            /\ ~result.raised
            /\ DOMAIN Positions = Ids(nodes)

----------------------------------------------------------------------------
(* Properties of the cumulative evolution workflow *)

Cancelled == is_paused \/ ~is_evolving

\* C9: while the evolution is paused or not running (after pause, reset or
\* completion), a timer callback that runs computes no orbit, leaves
\* current_n alone and schedules nothing, so the timer queue only drains;
\* a callback is scheduled again only by toggle_pause (resume) or by
\* start_cumulative (the button, or Enter).
C9_CancelledTicksDoNothing ==
    [][Cancelled =>
          /\ Tick => /\ all_orbits' = all_orbits
                     /\ current_n' = current_n
                     /\ pending' = pending - 1
                     /\ is_evolving' = is_evolving
                     /\ is_paused' = is_paused
          /\ pending' > pending => (ClickStop \/ ClickCumulative \/ PressEnter)]_vars

\* a callback has run during a pause: the run is unfinished, paused, and
\* the timer queue is empty
C9_Witness ==
    /\ is_evolving
    /\ is_paused
    /\ pending = 0
    /\ current_n <= max_n
    /\ Len(all_orbits) >= 1

\* the orbits of 1..k in order
OrbitsUpTo(k) == [i \in 1 .. k |-> Get(collatz_orbit(i).ret)]

\* C10: in CUMULATIVE mode all_orbits holds the orbits of 1, 2, ...,
\* current_n - 1 in this order, one each, and current_n never passes
\* max_n + 1, whatever the order of starts, pauses, resets and callbacks.
C10_OrbitsAreOneToCurrent ==
    mode = CUMULATIVE =>
        /\ current_n >= 1
        /\ current_n <= max_n + 1
        /\ Len(all_orbits) = current_n - 1
        /\ \A i \in 1 .. Len(all_orbits) : all_orbits[i] = OrbitsUpTo(current_n - 1)[i]

\* a run finished while two callbacks were in flight (a resume before the
\* callback scheduled ahead of the pause had run)
C10_Witness ==
    /\ mode = CUMULATIVE
    /\ ~is_evolving
    /\ max_n = 3
    /\ current_n = 4
    /\ Len(all_orbits) = 3
    /\ pending >= 1

\* the texts tried that are not a positive integer: empty, not a number,
\* zero, negative
InvalidTexts == {<<>>, <<"x">>, <<"0">>, <<"-", "2">>}

\* C21: with an entry text that is not a positive integer, run_single and
\* start_cumulative (by their buttons or by Enter) compute no orbit, schedule
\* no callback and leave all_orbits, is_evolving, is_paused, current_n and
\* max_n as they were; the text itself is not replaced.
C21_RejectedInputChangesNothing ==
    [][(entry_main \in InvalidTexts /\ (ClickSingle \/ ClickCumulative \/ PressEnter)) =>
          UNCHANGED <<all_orbits, is_evolving, is_paused, current_n, max_n,
                      pending, entry_main>>]_vars

\* run_single has switched to SINGLE mode and rejected the text: no orbit
C21_Witness ==
    /\ mode = SINGLE
    /\ entry_main = <<"0">>
    /\ all_orbits = <<>>
    /\ pending = 0

\* C28 as stated: at every moment at most one evolve_step callback is
\* pending.
C28_AtMostOnePending == pending <= 1

\* C29: is_paused implies is_evolving; toggle_pause changes nothing while
\* no evolution runs and start_cumulative changes nothing while one runs.
C29_PausedImpliesEvolving ==
    /\ is_paused => is_evolving
    /\ ~is_evolving => toggle_pause(GuiState) = GuiState
    /\ is_evolving => start_cumulative(GuiState) = GuiState

\* a run that was paused has been reset while a callback was still waiting
C29_Witness ==
    /\ mode = IDLE
    /\ ~is_evolving
    /\ ~is_paused
    /\ pending >= 1

\* C24: once start_cumulative has accepted max_n = N, the evolution reaches
\* is_evolving = FALSE with all_orbits holding the orbits of 1..N, unless a
\* reset (which alone leads back to IDLE mode) comes first; and while no
\* evolution runs no callback is scheduled.
C24_EvolutionCompletes ==
    /\ \A N \in 1 .. MaxTyped :
          (is_evolving /\ max_n = N) ~>
              \/ ~is_evolving /\ max_n = N /\ all_orbits = OrbitsUpTo(N)
              \/ mode = IDLE
    /\ [][(~is_evolving /\ ~is_evolving') => pending' <= pending]_vars

\* a run to 3 is complete and the timer queue is empty
C24_Witness ==
    /\ mode = CUMULATIVE
    /\ ~is_evolving
    /\ max_n = 3
    /\ all_orbits = OrbitsUpTo(3)
    /\ pending = 0

====
